---- MODULE Spec2Model ----
(***************************************************************************)
(* telebash: the access-code authority (src/auth_manager.rs), the          *)
(* per-identity directory sessions (src/file_manager.rs) and the command   *)
(* gate (src/bot.rs), as state machines.                                   *)
(*                                                                         *)
(*   Spec     the AuthManager driven through its public methods, in any    *)
(*            order and with any arguments, as the unit tests drive it.    *)
(*   BotSpec  the running bot: one action per BotManager handler.          *)
(*   AuthBotSpec, GateSpec  the bot under a part of its commands.          *)
(*   FileSpec the FileManager driven through its public methods, in any    *)
(*            order, for any identity and path.                            *)
(*   ConcSpec the /auth handlers of several identities running as          *)
(*            concurrent tasks around the AuthManager mutex.               *)
(***************************************************************************)
EXTENDS Integers, Sequences, FiniteSets, TLC

(* ------------------------------ bounds --------------------------------- *)
\* Identities are the u64 ids 1..NumUsers.
NumUsers == 2
\* generate_access_code draws from the first NumCodes numbers of its range.
NumCodes == 2

(* ------------------------- program constants --------------------------- *)
\* rng.random_range(100000..=999999)
CodeMin == 100000
CodeMax == 999999

VARIABLES
    authorized_users,  \* AuthManager.authorized_users.users : set of ids
    access_codes,      \* AuthManager.access_codes : code string -> id
    users_file,        \* the file at AuthManager.users_file_path
    sessions,          \* FileManager.sessions : id -> canonical path
    running,           \* FALSE after AuthManager::new failed (main panics)
    consumed,          \* history: the code verify_access_code accepted last
    last,              \* history: the operation the last step performed
    mutex,             \* Arc<Mutex<AuthManager>>: the id whose handler holds it, or 0
    tasks,             \* id -> where that identity's handler stands
    fm_mutex           \* Arc<Mutex<FileManager>>: the id whose handler holds it, or 0

vars == <<authorized_users, access_codes, users_file, sessions, running, consumed,
          last, mutex, tasks, fm_mutex>>

Ids == 1 .. NumUsers

(* ---------------------------- small helpers ---------------------------- *)
Range(s) == {s[i] : i \in 1 .. Len(s)}

Min(a, b) == IF a < b THEN a ELSE b

\* An insert that keeps the entry a key already has (entry().or_insert).
MapInsert_KeepFirst(m, k, v) == [x \in DOMAIN m \cup {k} |-> IF x \in DOMAIN m THEN m[x] ELSE v]

\* HashMap::insert: the entry for k is created or overwritten.
MapInsert(m, k, v) == [x \in DOMAIN m \cup {k} |-> IF x = k THEN v ELSE m[x]]

\* HashMap::remove
MapRemove(m, k) == [x \in DOMAIN m \ {k} |-> m[x]]

EmptyMap == <<>>

\* The elements of a set of ids written out one after the other. A HashSet
\* iterates in an order of its own; the only reader of the array, from_str,
\* drops the order, so the ascending one stands for all of them.
RECURSIVE Sequence(_)
Sequence(S) ==
    IF S = {} THEN <<>>
    ELSE LET x == CHOOSE y \in S : \A z \in S : y <= z IN <<x>> \o Sequence(S \ {x})

(* ------------------------------ codes ---------------------------------- *)
\* i32::to_string: the decimal digits, most significant first.
RECURSIVE to_string(_)
to_string(n) == IF n < 10 THEN <<n>> ELSE Append(to_string(n \div 10), n % 10)

\* The numbers generate_access_code can draw (the range, cut to NumCodes).
RandomRange == CodeMin .. Min(CodeMax, CodeMin + NumCodes - 1)

\* A string no draw can produce ("000000", as in the unit tests).
BogusCode == <<0, 0, 0, 0, 0, 0>>

\* The strings generate_access_code can return.
Codes == {to_string(n) : n \in RandomRange}

\* The code strings a caller may submit.
CodeInputs == Codes \cup {BogusCode}

NoCode == <<>>
NoPath == <<>>

(* --------------------------- the durable file -------------------------- *)
\* The file is absent, holds the JSON document {"users": [...]} (modelled by
\* the array), or holds text that is not such a document.
MissingFile == [kind |-> "missing", users |-> <<>>]
MalformedFile == [kind |-> "malformed", users |-> <<>>]
ValidFile(array) == [kind |-> "valid", users |-> array]

\* serde_json::to_string_pretty(&self.authorized_users): the set as the array
\* of the document.
to_string_pretty(users) == ValidFile(Sequence(users))

\* serde_json::from_str: the array back into a HashSet.
from_str(f) == Range(f.users)

\* AuthManager::load_authorized_users
\* A load that takes a file it cannot parse for an empty set.
load_authorized_users_Lenient(f) ==
    IF f.kind = "valid" THEN [ok |-> TRUE, users |-> from_str(f)]
    ELSE [ok |-> TRUE, users |-> {}]

load_authorized_users(f) ==
    CASE f.kind = "valid" -> [ok |-> TRUE, users |-> from_str(f)]
      [] f.kind = "malformed" -> [ok |-> FALSE, users |-> {}]
      [] OTHER -> [ok |-> TRUE, users |-> {}]

\* What a new AuthManager built from the file would hold ({} when it cannot
\* be built).
FileUsers(f) == load_authorized_users(f).users

\* fs::write that fails: File::create failed (file untouched) or write_all
\* failed after the truncation (file left cut short).
FailedWrite(f) == {f, MalformedFile}

(* ---------------------------- the filesystem --------------------------- *)
\* A fixed tree the sessions move in. A path is the sequence of its components
\* below "/"; <<>> is PathBuf::from("/").
\*     /            directory
\*     /a           directory
\*     /a/b         directory, empty
\*     /a/g         regular file, 0 bytes
\*     /f           regular file, 10 bytes
\*     /l           symbolic link to /a/b
\*     /p           directory that cannot be read (no r permission)
Root == <<>>

Node(kind, size, target, readable) ==
    [kind |-> kind, size |-> size, target |-> target, readable |-> readable]

FsPaths == {Root, <<"a">>, <<"a", "b">>, <<"a", "g">>, <<"f">>, <<"l">>, <<"p">>}

FS ==
    [q \in FsPaths |->
        CASE q = <<"a", "g">> -> Node("file", 0, Root, TRUE)
          [] q = <<"f">> -> Node("file", 10, Root, TRUE)
          [] q = <<"l">> -> Node("symlink", 4, <<"a", "b">>, TRUE)
          [] q = <<"p">> -> Node("dir", 4096, Root, FALSE)
          [] OTHER -> Node("dir", 4096, Root, TRUE)]

DotDot == <<"..">>

\* A parent that is the root for every path below it.
parent_Root(q) ==
    IF Len(q) = 0 THEN [some |-> FALSE, path |-> q]
    ELSE [some |-> TRUE, path |-> Root]

\* Path::parent of an absolute path: None (here: an unfound result) for "/".
parent(q) ==
    IF Len(q) = 0 THEN [some |-> FALSE, path |-> q]
    ELSE [some |-> TRUE, path |-> SubSeq(q, 1, Len(q) - 1)]

\* Path::join: an absolute argument (first component "/") replaces the base.
join(base, token) ==
    IF Len(token) > 0 /\ token[1] = "/" THEN Tail(token) ELSE base \o token

NotFound == [found |-> FALSE, path |-> Root]

\* The kernel's path walk from the directory `cur` (a canonical path): "." and
\* ".." are followed, a symbolic link is replaced by its target, a component
\* below a non-directory fails.
RECURSIVE Walk(_, _)
Walk(cur, comps) ==
    IF Len(comps) = 0 THEN [found |-> TRUE, path |-> cur]
    ELSE IF FS[cur].kind # "dir" THEN NotFound
    ELSE LET c == Head(comps)
             rest == Tail(comps) IN
         CASE c = "." -> Walk(cur, rest)
           [] c = ".." -> Walk(IF Len(cur) = 0 THEN cur ELSE SubSeq(cur, 1, Len(cur) - 1), rest)
           [] c = "/" -> Walk(Root, rest)
           [] OTHER ->
                LET child == Append(cur, c) IN
                IF child \notin FsPaths THEN NotFound
                ELSE IF FS[child].kind = "symlink" THEN Walk(FS[child].target, rest)
                ELSE Walk(child, rest)

Resolve(q) == Walk(Root, q)

\* Path::is_dir, Path::is_file, Path::exists, Path::canonicalize (all follow links)
is_dir(q) == Resolve(q).found /\ FS[Resolve(q).path].kind = "dir"

is_file_path(q) == Resolve(q).found /\ FS[Resolve(q).path].kind = "file"

exists(q) == Resolve(q).found

\* A canonical form that keeps the path as it was given.
canonicalize_AsGiven(q) == q

canonicalize(q) == Resolve(q).path

(* ----------------------------- FileManager ----------------------------- *)
\* A lookup that answers the root whatever the session map holds.
get_current_directory_for_user_Default(s, u) == Root

\* FileManager::get_current_directory_for_user
get_current_directory_for_user(s, u) == IF u \in DOMAIN s THEN s[u] ELSE Root

\* FileManager::get_current_directory
get_current_directory(s, u) == get_current_directory_for_user(s, u)

\* FileManager::get_file_path
get_file_path(s, u, filename) == join(get_current_directory_for_user(s, u), filename)

\* FileManager::file_exists
file_exists(s, u, filename) == exists(join(get_current_directory_for_user(s, u), filename))

\* An is_file that is true of whatever exists.
is_file_Exists(s, u, filename) == exists(join(get_current_directory_for_user(s, u), filename))

\* FileManager::is_file
is_file(s, u, filename) == is_file_path(join(get_current_directory_for_user(s, u), filename))

\* A candidate without the fallback of unwrap_or_else: ".." is joined to a
\* directory that has no parent, and the join is looked up as a name.
new_path_NoFallback(s, u, token) ==
    LET current_dir == get_current_directory_for_user(s, u) IN
    IF token = DotDot
    THEN (IF parent(current_dir).some THEN parent(current_dir).path
          ELSE Append(current_dir, "nope"))
    ELSE join(current_dir, token)

\* The candidate of change_directory: the parent for "..", else the join.
new_path(s, u, token) ==
    LET current_dir == get_current_directory_for_user(s, u) IN
    IF token = DotDot
    THEN (IF parent(current_dir).some THEN parent(current_dir).path ELSE current_dir)
    ELSE join(current_dir, token)

\* Err(BotError::FileError("Directory does not exist".to_string()))
DirectoryDoesNotExist == "Err(FileError: Directory does not exist)"

\* A change_directory that moves every session to the new directory.
change_directory_Shared(s, u, token) ==
    LET candidate == new_path(s, u, token) IN
    IF is_dir(candidate)
    THEN [ret |-> "Ok",
          sessions |-> [v \in DOMAIN s \cup {u} |-> canonicalize(candidate)]]
    ELSE [ret |-> DirectoryDoesNotExist, sessions |-> s]

\* A change_directory that, failing, records the directory the caller is in.
change_directory_CreatesEntry(s, u, token) ==
    LET candidate == new_path(s, u, token) IN
    IF is_dir(candidate)
    THEN [ret |-> "Ok", sessions |-> MapInsert(s, u, canonicalize(candidate))]
    ELSE [ret |-> DirectoryDoesNotExist,
          sessions |-> MapInsert(s, u, get_current_directory_for_user(s, u))]

\* FileManager::change_directory: the result and the session map it leaves.
change_directory(s, u, token) ==
    LET candidate == new_path(s, u, token) IN
    IF is_dir(candidate)
    THEN [ret |-> "Ok", sessions |-> MapInsert(s, u, canonicalize(candidate))]
    ELSE [ret |-> DirectoryDoesNotExist, sessions |-> s]

\* DirEntry::metadata does not follow a link: a link is no directory.
FileItem(q) ==
    [name |-> q[Len(q)], path |-> q, is_directory |-> FS[q].kind = "dir",
     size |-> FS[q].size]

\* A read_dir that descends: every path below the directory.
read_dir_Deep(q) ==
    IF is_dir(q) /\ FS[canonicalize(q)].readable
    THEN [ok |-> TRUE,
          entries |-> {c \in FsPaths : Len(c) > Len(canonicalize(q)) /\
                          SubSeq(c, 1, Len(canonicalize(q))) = canonicalize(q)}]
    ELSE [ok |-> FALSE, entries |-> {}]

\* fs::read_dir: the immediate children of a readable directory.
read_dir(q) ==
    IF is_dir(q) /\ FS[canonicalize(q)].readable
    THEN [ok |-> TRUE,
          entries |-> {c \in FsPaths : Len(c) = Len(canonicalize(q)) + 1 /\
                          SubSeq(c, 1, Len(c) - 1) = canonicalize(q)}]
    ELSE [ok |-> FALSE, entries |-> {}]

\* FileManager::list_directory
list_directory(s, u) ==
    LET d == read_dir(get_current_directory_for_user(s, u)) IN
    IF d.ok THEN [ret |-> "Ok", items |-> {FileItem(c) : c \in d.entries}]
    ELSE [ret |-> "Err(FileError)", items |-> {}]

\* AuthManager::is_authorized
is_authorized(u) == u \in authorized_users

\* Mutant: the lookup forgets to compare the stored identity.
CodeMatches_AnyIdentity(codes, code, u) == code \in DOMAIN codes

\* The lookup of verify_access_code: the code is present and bound to u.
CodeMatches(codes, code, u) == code \in DOMAIN codes /\ codes[code] = u

(* ------------------------------- history ------------------------------- *)
Op(op, u, code, path, ret, inner, reply) ==
    [op |-> op, user |-> u, code |-> code, path |-> path,
     ret |-> ret, inner |-> inner, reply |-> reply]

(* ------------------------------- Init ---------------------------------- *)
\* main: AuthManager::new(users file) succeeded, FileManager::new().
\* The mutex when no handler holds it.
Unlocked == 0

\* A handler task that is not running: no /auth of that identity is in flight.
\* `ret` is "Ok(true)" once a verify_access_code of the identity returned it.
IdleTask == [pc |-> "idle", code |-> NoCode, content |-> MissingFile, ret |-> "none"]

\* The handlers of the other specifications run from lock to unlock in one
\* step; the tasks stay idle.
concVars == <<mutex, tasks, fm_mutex>>

InitFiles == {MissingFile} \cup {to_string_pretty(S) : S \in SUBSET Ids}

Init ==
    /\ users_file \in InitFiles
    /\ authorized_users = load_authorized_users(users_file).users
    /\ access_codes = EmptyMap
    /\ sessions = EmptyMap
    /\ running = TRUE
    /\ consumed = NoCode
    /\ last = Op("new", 0, NoCode, NoPath, "Ok", "none", "none")
    /\ mutex = Unlocked
    /\ tasks = [u \in Ids |-> IdleTask]
    /\ fm_mutex = Unlocked

(* --------------------------- AuthManager API --------------------------- *)
authVars == <<authorized_users, access_codes, users_file, consumed>>

\* A restart that finds the code table of the previous run.
NewAuthManager_KeepsCodes ==
    LET r == load_authorized_users(users_file) IN
    /\ authorized_users' = r.users
    /\ running' = r.ok
    /\ consumed' = NoCode
    /\ last' = Op("new", 0, NoCode, NoPath,
                  IF r.ok THEN "Ok" ELSE "Err(AuthError)", "restart", "none")
    /\ UNCHANGED <<access_codes, sessions, users_file, concVars>>

\* AuthManager::new on the current file: a restart of the process (the
\* history marks it "restart" to tell it from the first start).
NewAuthManager ==
    LET r == load_authorized_users(users_file) IN
    /\ authorized_users' = r.users
    /\ access_codes' = EmptyMap
    /\ sessions' = EmptyMap
    /\ running' = r.ok
    /\ consumed' = NoCode
    /\ last' = Op("new", 0, NoCode, NoPath,
                  IF r.ok THEN "Ok" ELSE "Err(AuthError)", "restart", "none")
    /\ UNCHANGED <<users_file, concVars>>

\* A save that serializes the set as it was before the caller's insert.
save_authorized_users_Stale(ok) ==
    IF ok THEN users_file' = to_string_pretty(authorized_users)
    ELSE users_file' \in FailedWrite(users_file)

\* AuthManager::save_authorized_users: the whole set is written over the file;
\* `ok` is whether fs::write succeeds. (to_string_pretty cannot fail on a set
\* of integers.)
save_authorized_users(ok) ==
    IF ok THEN users_file' = to_string_pretty(authorized_users')
    ELSE users_file' \in FailedWrite(users_file)

\* A generate that keeps one code per identity: the new code replaces the
\* codes the identity held.
generate_OnePerIdentity(u, code) ==
    /\ code \in Codes
    /\ access_codes' = [x \in {k \in DOMAIN access_codes : access_codes[k] # u}
                                \cup {code}
                        |-> IF x = code THEN u ELSE access_codes[x]]
    /\ UNCHANGED <<authorized_users, users_file, consumed>>

\* A generate that also saves the authorized set.
generate_Persists(u, code) ==
    /\ code \in Codes
    /\ access_codes' = MapInsert(access_codes, code, u)
    /\ users_file' = to_string_pretty(authorized_users)
    /\ UNCHANGED <<authorized_users, consumed>>

\* The body of AuthManager::generate_access_code returning `code`.
generate(u, code) ==
    /\ code \in Codes
    /\ access_codes' = MapInsert(access_codes, code, u)
    /\ UNCHANGED <<authorized_users, users_file, consumed>>

\* What the history keeps of a call of verify_access_code that returned `r`
\* after its write ended as `w` ("none": nothing was written). The method's
\* own entry keeps both; handle_auth_code drops the result in either arm of
\* its match, sends nothing and returns Ok(()).
Returned(caller, u, code, r, w) ==
    IF caller = "verify_access_code"
    THEN Op(caller, u, code, NoPath, r, w, "none")
    ELSE Op(caller, u, code, NoPath, "Ok", r, "none")

\* A verify that drops the submitted code from the table when the lookup fails.
verify_ConsumesOnFailure(code, u, caller) ==
    IF CodeMatches(access_codes, code, u)
    THEN /\ authorized_users' = authorized_users \cup {u}
         /\ access_codes' = MapRemove(access_codes, code)
         /\ \/ /\ save_authorized_users(TRUE)
               /\ consumed' = code
               /\ last' = Returned(caller, u, code, "Ok(true)", "Ok")
            \/ /\ save_authorized_users(FALSE)
               /\ consumed' = consumed
               /\ last' = Returned(caller, u, code, "Err(AuthError)", "Err")
    ELSE /\ last' = Returned(caller, u, code, "Ok(false)", "none")
         /\ access_codes' = MapRemove(access_codes, code)
         /\ UNCHANGED <<authorized_users, users_file, consumed>>

\* A verify that undoes its insert and its remove when the write fails.
verify_Rollback(code, u, caller) ==
    IF CodeMatches(access_codes, code, u)
    THEN \/ /\ authorized_users' = authorized_users \cup {u}
            /\ access_codes' = MapRemove(access_codes, code)
            /\ save_authorized_users(TRUE)
            /\ consumed' = code
            /\ last' = Returned(caller, u, code, "Ok(true)", "Ok")
         \/ /\ UNCHANGED <<authorized_users, access_codes, consumed>>
            /\ users_file' \in FailedWrite(users_file)
            /\ last' = Returned(caller, u, code, "Err(AuthError)", "Err")
    ELSE /\ last' = Returned(caller, u, code, "Ok(false)", "none")
         /\ UNCHANGED authVars

\* A verify that takes the caller out of the authorized set when the lookup fails.
verify_RevokesOnFailure(code, u, caller) ==
    IF CodeMatches(access_codes, code, u)
    THEN /\ authorized_users' = authorized_users \cup {u}
         /\ access_codes' = MapRemove(access_codes, code)
         /\ \/ /\ save_authorized_users(TRUE)
               /\ consumed' = code
               /\ last' = Returned(caller, u, code, "Ok(true)", "Ok")
            \/ /\ save_authorized_users(FALSE)
               /\ consumed' = consumed
               /\ last' = Returned(caller, u, code, "Err(AuthError)", "Err")
    ELSE /\ last' = Returned(caller, u, code, "Ok(false)", "none")
         /\ authorized_users' = authorized_users \ {u}
         /\ UNCHANGED <<access_codes, users_file, consumed>>

\* A verify that tells the caller when the code is somebody else's.
verify_TellsForeign(code, u, caller) ==
    IF CodeMatches(access_codes, code, u)
    THEN /\ authorized_users' = authorized_users \cup {u}
         /\ access_codes' = MapRemove(access_codes, code)
         /\ \/ /\ save_authorized_users(TRUE)
               /\ consumed' = code
               /\ last' = Returned(caller, u, code, "Ok(true)", "Ok")
            \/ /\ save_authorized_users(FALSE)
               /\ consumed' = consumed
               /\ last' = Returned(caller, u, code, "Err(AuthError)", "Err")
    ELSE /\ last' = Returned(caller, u, code,
                             IF code \in DOMAIN access_codes
                             THEN "Err(AuthError)" ELSE "Ok(false)", "none")
         /\ UNCHANGED authVars

\* The body of AuthManager::verify_access_code, called by `caller`.
verify(code, u, caller) ==
    IF CodeMatches(access_codes, code, u)
    THEN /\ authorized_users' = authorized_users \cup {u}
         /\ access_codes' = MapRemove(access_codes, code)
         /\ \/ /\ save_authorized_users(TRUE)
               /\ consumed' = code
               /\ last' = Returned(caller, u, code, "Ok(true)", "Ok")
            \/ /\ save_authorized_users(FALSE)
               /\ consumed' = consumed
               /\ last' = Returned(caller, u, code, "Err(AuthError)", "Err")
    ELSE /\ last' = Returned(caller, u, code, "Ok(false)", "none")
         /\ UNCHANGED authVars

\* What HashMap::insert of generate_access_code returns (the method drops it):
\* None for a new key, else the identity the code was bound to.
Inserted(codes, code, u) ==
    IF code \notin DOMAIN codes THEN "None"
    ELSE IF codes[code] = u THEN "Some(same)" ELSE "Some(other)"

\* AuthManager::generate_access_code
generate_access_code(u) ==
    /\ running
    /\ \E code \in Codes :
         /\ generate(u, code)
         /\ last' = Op("generate_access_code", u, code, NoPath, "code",
                       Inserted(access_codes, code, u), "none")
    /\ UNCHANGED <<sessions, running>>

\* AuthManager::verify_access_code
verify_access_code(code, u) ==
    /\ running
    /\ verify(code, u, "verify_access_code")
    /\ UNCHANGED <<sessions, running>>

\* AuthManager::is_authorized, called for its result.
IsAuthorized(u) ==
    /\ running
    /\ last' = Op("is_authorized", u, NoCode, NoPath,
                  IF is_authorized(u) THEN "true" ELSE "false", "none", "none")
    /\ UNCHANGED <<authVars, sessions, running>>

GenerateStep ==
    /\ \E u \in Ids : generate_access_code(u)
    /\ UNCHANGED concVars
VerifyStep ==
    /\ \E u \in Ids, code \in CodeInputs : verify_access_code(code, u)
    /\ UNCHANGED concVars
IsAuthorizedStep ==
    /\ \E u \in Ids : IsAuthorized(u)
    /\ UNCHANGED concVars

Next ==
    \/ NewAuthManager
    \/ GenerateStep
    \/ VerifyStep
    \/ IsAuthorizedStep

Spec == Init /\ [][Next]_vars

(* ------------------------------ BotManager ----------------------------- *)
\* The path tokens and file names a user sends with /cd and /download.
BotTokens == {DotDot, <<"a">>, <<"f">>, <<"nope">>}

\* The handler ends with bot.send_message(..).await.map_err(TelegramError)?
\* and Ok(()): it returns what the transport's send returns.
Sent == "Send"

\* A gate that lets every requester through.
Gate_Open(u) == TRUE

\* The check of handle_command before a gated command.
Gate(u) == is_authorized(u)

\* BotManager::handle_help
handle_help(u) ==
    /\ running
    /\ last' = Op("help", u, NoCode, NoPath, Sent, "none",
                    IF is_authorized(u) THEN "Help(authorized)" ELSE "Help(unauthorized)")
    /\ UNCHANGED <<authVars, sessions, running>>

\* A handle_auth behind the gate: who is not authorized gets the gate's answer.
handle_auth_Gated(u) ==
    /\ running
    /\ last' = Op("authrequest", u, NoCode, NoPath, Sent, "none",
                  IF is_authorized(u) THEN "AlreadyAuthorized" ELSE "Unauthorized")
    /\ UNCHANGED <<authVars, sessions, running>>

\* BotManager::handle_auth
handle_auth(u) ==
    /\ running
    /\ IF is_authorized(u)
       THEN /\ last' = Op("authrequest", u, NoCode, NoPath, Sent, "none",
                            "AlreadyAuthorized")
            /\ UNCHANGED authVars
       ELSE \E code \in Codes :
              /\ generate(u, code)
              /\ \/ last' = Op("authrequest", u, NoCode, NoPath, "Err(LogError)",
                               "generate_access_code", "none")
                 \/ last' = Op("authrequest", u, NoCode, NoPath, Sent,
                               "generate_access_code", "EnterCode")
    /\ UNCHANGED <<sessions, running>>

\* A handle_auth_code without the is_authorized test of its first lines.
handle_auth_code_NoCheck(u, code) ==
    /\ running
    /\ verify(code, u, "auth")
    /\ UNCHANGED <<sessions, running>>

\* BotManager::handle_auth_code
handle_auth_code(u, code) ==
    /\ running
    /\ IF is_authorized(u)
       THEN /\ last' = Op("auth", u, code, NoPath, Sent, "none",
                            "AlreadyAuthorized")
            /\ UNCHANGED authVars
       ELSE verify(code, u, "auth")
    /\ UNCHANGED <<sessions, running>>

\* The else arm of the gate: the constant message, nothing else.
Unauthorized(op, u, token) ==
    /\ last' = Op(op, u, NoCode, token, Sent, "none", "Unauthorized")
    /\ UNCHANGED sessions

\* BotManager::handle_ls
handle_ls(u) ==
    LET r == list_directory(sessions, u) IN
    /\ IF r.ret # "Ok"
       THEN last' = Op("ls", u, NoCode, NoPath, r.ret, r.ret, "none")
       ELSE last' = Op("ls", u, NoCode, NoPath, Sent, r.ret,
                         IF r.items = {} THEN "DirectoryEmpty" ELSE "Listing")
    /\ UNCHANGED sessions

\* BotManager::handle_cd
handle_cd(u, token) ==
    LET r == change_directory(sessions, u, token) IN
    /\ sessions' = r.sessions
    /\ last' = Op("cd", u, NoCode, token, Sent, r.ret,
                    IF r.ret = "Ok" THEN "ChangedDirectory" ELSE "Error")

\* BotManager::handle_download
handle_download(u, filename) ==
    /\ last' = Op("download", u, NoCode, filename, Sent,
                    IF ~file_exists(sessions, u, filename) THEN "file_exists:false"
                    ELSE IF ~is_file(sessions, u, filename) THEN "is_file:false"
                    ELSE "get_file_path",
                    IF ~file_exists(sessions, u, filename) THEN "FileNotFound"
                    ELSE IF ~is_file(sessions, u, filename) THEN "CannotDownloadDirectories"
                    ELSE "Document")
    /\ UNCHANGED sessions

\* BotManager::handle_exec: the command runs in the session's directory and the
\* reply tells how it ended; what the command itself does is outside the model.
handle_exec(u) ==
    /\ last' = Op("exec", u, NoCode, get_current_directory(sessions, u), Sent,
                  "exec", "ExecResult")
    /\ UNCHANGED sessions

\* BotManager::handle_pwd
handle_pwd(u) ==
    /\ last' = Op("pwd", u, NoCode, get_current_directory(sessions, u), Sent,
                    "get_current_directory", "CurrentDirectory")
    /\ UNCHANGED sessions

\* BotManager::handle_command, the gated commands.
CommandLs(u) ==
    /\ running
    /\ IF Gate(u) THEN handle_ls(u) ELSE Unauthorized("ls", u, NoPath)
    /\ UNCHANGED <<authVars, running>>

CommandCd(u, token) ==
    /\ running
    /\ IF Gate(u) THEN handle_cd(u, token) ELSE Unauthorized("cd", u, token)
    /\ UNCHANGED <<authVars, running>>

CommandDownload(u, filename) ==
    /\ running
    /\ IF Gate(u) THEN handle_download(u, filename) ELSE Unauthorized("download", u, filename)
    /\ UNCHANGED <<authVars, running>>

CommandExec(u) ==
    /\ running
    /\ IF Gate(u) THEN handle_exec(u) ELSE Unauthorized("exec", u, NoPath)
    /\ UNCHANGED <<authVars, running>>

CommandPwd(u) ==
    /\ running
    /\ IF Gate(u) THEN handle_pwd(u) ELSE Unauthorized("pwd", u, NoPath)
    /\ UNCHANGED <<authVars, running>>

\* BotManager::handle_command on a message without a sender: nothing is done.
CommandNoSender ==
    /\ running
    /\ last' = Op("nosender", 0, NoCode, NoPath, "Ok", "none", "none")
    /\ UNCHANGED <<authVars, sessions, running, concVars>>

HelpStep ==
    /\ \E u \in Ids : handle_help(u)
    /\ UNCHANGED concVars
AuthRequestStep ==
    /\ \E u \in Ids : handle_auth(u)
    /\ UNCHANGED concVars
AuthStep ==
    /\ \E u \in Ids, code \in CodeInputs : handle_auth_code(u, code)
    /\ UNCHANGED concVars
LsStep ==
    /\ \E u \in Ids : CommandLs(u)
    /\ UNCHANGED concVars
CdStep ==
    /\ \E u \in Ids, token \in BotTokens : CommandCd(u, token)
    /\ UNCHANGED concVars
DownloadStep ==
    /\ \E u \in Ids, filename \in BotTokens : CommandDownload(u, filename)
    /\ UNCHANGED concVars
ExecStep ==
    /\ \E u \in Ids : CommandExec(u)
    /\ UNCHANGED concVars
PwdStep ==
    /\ \E u \in Ids : CommandPwd(u)
    /\ UNCHANGED concVars

BotNext ==
    \/ NewAuthManager
    \/ HelpStep
    \/ AuthRequestStep
    \/ AuthStep
    \/ LsStep
    \/ CdStep
    \/ DownloadStep
    \/ ExecStep
    \/ PwdStep
    \/ CommandNoSender

BotSpec == Init /\ [][BotNext]_vars

\* The bot while it receives only the authorization-exempt commands.
AuthBotNext ==
    \/ NewAuthManager
    \/ HelpStep
    \/ AuthRequestStep
    \/ AuthStep
    \/ CommandNoSender

AuthBotSpec == Init /\ [][AuthBotNext]_vars

\* The bot while nobody redeems a code: the authorized are those the file
\* named at start-up, the others may request codes, everybody sends the gated
\* commands.
GateNext ==
    \/ NewAuthManager
    \/ AuthRequestStep
    \/ LsStep
    \/ CdStep
    \/ DownloadStep
    \/ ExecStep
    \/ PwdStep

GateSpec == Init /\ [][GateNext]_vars

(* --------------------------- FileManager API --------------------------- *)
\* The path and file-name arguments of the FileManager methods: "..", names
\* of a directory, a file, a link and of nothing, an absolute path and a path
\* with a ".." inside.
PathTokens ==
    {DotDot, <<"a">>, <<"b">>, <<"f">>, <<"l">>, <<"nope">>, <<"/", "p">>, <<"a", "..">>}

\* FileManager::change_directory
ChangeDirectory(u, token) ==
    LET r == change_directory(sessions, u, token) IN
    /\ sessions' = r.sessions
    /\ last' = Op("change_directory", u, NoCode, token, r.ret, "none", "none")
    /\ UNCHANGED <<authVars, running, concVars>>

\* A get_current_directory that records the default for an identity without
\* a session (an entry().or_insert lookup).
GetCurrentDirectory_CreatesSession(u) ==
    /\ last' = Op("get_current_directory", u, NoCode, get_current_directory(sessions, u),
                  "path", "none", "none")
    /\ sessions' = MapInsert(sessions, u, get_current_directory(sessions, u))
    /\ UNCHANGED <<authVars, running, concVars>>

\* FileManager::get_current_directory; last.path is the directory it returns.
GetCurrentDirectory(u) ==
    /\ last' = Op("get_current_directory", u, NoCode, get_current_directory(sessions, u),
                  "path", "none", "none")
    /\ UNCHANGED <<authVars, sessions, running, concVars>>

\* FileManager::list_directory
ListDirectory(u) ==
    LET r == list_directory(sessions, u) IN
    /\ last' = Op("list_directory", u, NoCode, NoPath, r.ret, "none",
                  IF r.ret # "Ok" THEN "none"
                  ELSE IF r.items = {} THEN "DirectoryEmpty" ELSE "Listing")
    /\ UNCHANGED <<authVars, sessions, running, concVars>>

\* FileManager::file_exists
FileExists(u, filename) ==
    /\ last' = Op("file_exists", u, NoCode, filename,
                  IF file_exists(sessions, u, filename) THEN "true" ELSE "false",
                  "none", "none")
    /\ UNCHANGED <<authVars, sessions, running, concVars>>

\* FileManager::is_file
IsFile(u, filename) ==
    /\ last' = Op("is_file", u, NoCode, filename,
                  IF is_file(sessions, u, filename) THEN "true" ELSE "false",
                  "none", "none")
    /\ UNCHANGED <<authVars, sessions, running, concVars>>

\* FileManager::get_file_path; last.path is the path it returns.
GetFilePath(u, filename) ==
    /\ last' = Op("get_file_path", u, NoCode, get_file_path(sessions, u, filename),
                  "path", "none", "none")
    /\ UNCHANGED <<authVars, sessions, running, concVars>>

ChangeDirectoryStep == \E u \in Ids, token \in PathTokens : ChangeDirectory(u, token)
GetCurrentDirectoryStep == \E u \in Ids : GetCurrentDirectory(u)
ListDirectoryStep == \E u \in Ids : ListDirectory(u)
FileExistsStep == \E u \in Ids, filename \in PathTokens : FileExists(u, filename)
IsFileStep == \E u \in Ids, filename \in PathTokens : IsFile(u, filename)
GetFilePathStep == \E u \in Ids, filename \in PathTokens : GetFilePath(u, filename)

FileNext ==
    \/ ChangeDirectoryStep
    \/ GetCurrentDirectoryStep
    \/ ListDirectoryStep
    \/ FileExistsStep
    \/ IsFileStep
    \/ GetFilePathStep

\* FileManager::new(), as the unit tests make it: no sessions; the AuthManager
\* plays no part and starts without a users file.
FileInit == Init /\ users_file = MissingFile

FileSpec == FileInit /\ [][FileNext]_vars

(* --------------------------- the read-only methods --------------------- *)
\* Both managers under their queries. The users file names identity 1 at the
\* start; the others fill the code table through /authrequest, and
\* change_directory fills the session map. Paths and names are those of
\* BotTokens.
QueryInit == Init /\ users_file = to_string_pretty({1})

QueryChangeDirectoryStep == \E u \in Ids, token \in BotTokens : ChangeDirectory(u, token)
QueryFileExistsStep == \E u \in Ids, filename \in BotTokens : FileExists(u, filename)
QueryIsFileStep == \E u \in Ids, filename \in BotTokens : IsFile(u, filename)
QueryGetFilePathStep == \E u \in Ids, filename \in BotTokens : GetFilePath(u, filename)

QueryNext ==
    \/ AuthRequestStep
    \/ QueryChangeDirectoryStep
    \/ IsAuthorizedStep
    \/ GetCurrentDirectoryStep
    \/ ListDirectoryStep
    \/ QueryFileExistsStep
    \/ QueryIsFileStep
    \/ QueryGetFilePathStep

QuerySpec == QueryInit /\ [][QueryNext]_vars

(* ------------------------ concurrent /auth handlers -------------------- *)
\* The dispatcher runs the updates of different chats as concurrent tasks (and
\* those of one chat in order: an identity has one handler at a time). Here
\* handle_auth_code is cut at its await and at each statement of
\* verify_access_code and save_authorized_users. The history `last` is of
\* whole calls and is not kept by these steps.

\* A lock that is granted whoever holds the mutex.
CanLock_Always(u) == TRUE

\* auth_manager.lock().await completes: no other task holds the guard.
CanLock(u) == mutex = Unlocked

\* The handler's critical region: between lock().await and the drop of the
\* guard when handle_auth_code returns.
InCritical(u) == tasks[u].pc \in {"check", "serialize", "write", "reply", "return"}

\* An update "/auth <code>" of u is dispatched to handle_command.
AuthReceived(u, code) ==
    /\ running
    /\ tasks[u].pc = "idle"
    /\ tasks' = [tasks EXCEPT ![u].pc = "lock", ![u].code = code]
    /\ UNCHANGED <<authVars, sessions, running, last, mutex, fm_mutex>>

\* handle_auth_code: let mut auth_manager = auth_manager.lock().await
AuthLock(u) ==
    /\ tasks[u].pc = "lock"
    /\ CanLock(u)
    /\ mutex' = u
    /\ tasks' = [tasks EXCEPT ![u].pc = "check"]
    /\ UNCHANGED <<authVars, sessions, running, last, fm_mutex>>

\* handle_auth_code: the is_authorized test, then verify_access_code up to
\* its insert and remove.
AuthCheck(u) ==
    /\ tasks[u].pc = "check"
    /\ IF is_authorized(u)
       THEN /\ tasks' = [tasks EXCEPT ![u].pc = "reply"]
            /\ UNCHANGED <<authorized_users, access_codes>>
       ELSE IF CodeMatches(access_codes, tasks[u].code, u)
       THEN /\ authorized_users' = authorized_users \cup {u}
            /\ access_codes' = MapRemove(access_codes, tasks[u].code)
            /\ tasks' = [tasks EXCEPT ![u].pc = "serialize"]
       ELSE /\ tasks' = [tasks EXCEPT ![u].pc = "return"]
            /\ UNCHANGED <<authorized_users, access_codes>>
    /\ UNCHANGED <<users_file, consumed, sessions, running, last, mutex, fm_mutex>>

\* save_authorized_users: let content = serde_json::to_string_pretty(..)
AuthSerialize(u) ==
    /\ tasks[u].pc = "serialize"
    /\ tasks' = [tasks EXCEPT ![u].pc = "write",
                              ![u].content = to_string_pretty(authorized_users)]
    /\ UNCHANGED <<authVars, sessions, running, last, mutex, fm_mutex>>

\* save_authorized_users: fs::write(&self.users_file_path, content), and the
\* result verify_access_code returns after it.
AuthWrite(u) ==
    /\ tasks[u].pc = "write"
    /\ \/ /\ users_file' = tasks[u].content
          /\ consumed' = tasks[u].code
          /\ tasks' = [tasks EXCEPT ![u].pc = "return", ![u].ret = "Ok(true)",
                                    ![u].content = MissingFile]
       \/ /\ users_file' \in FailedWrite(users_file)
          /\ consumed' = consumed
          /\ tasks' = [tasks EXCEPT ![u].pc = "return", ![u].content = MissingFile]
    /\ UNCHANGED <<authorized_users, access_codes, sessions, running, last, mutex, fm_mutex>>

\* handle_auth_code returns (after the "already authorized" message, or after
\* dropping verify_access_code's result): the guard is dropped.
AuthReturn(u) ==
    /\ tasks[u].pc \in {"reply", "return"}
    /\ mutex' = IF mutex = u THEN Unlocked ELSE mutex
    /\ tasks' = [tasks EXCEPT ![u].pc = "idle", ![u].code = NoCode]
    /\ UNCHANGED <<authVars, sessions, running, last, fm_mutex>>

\* handle_auth of an identity with no /auth in flight: it runs under the same
\* mutex from its first statement to its return.
ConcAuthRequest(u) ==
    /\ tasks[u].pc = "idle"
    /\ CanLock(u)
    /\ running
    /\ IF is_authorized(u)
       THEN UNCHANGED authVars
       ELSE \E code \in Codes : generate(u, code)
    /\ UNCHANGED <<sessions, running, last, concVars>>

AuthReceivedStep == \E u \in Ids, code \in Codes : AuthReceived(u, code)
AuthLockStep == \E u \in Ids : AuthLock(u)
AuthCheckStep == \E u \in Ids : AuthCheck(u)
AuthSerializeStep == \E u \in Ids : AuthSerialize(u)
AuthWriteStep == \E u \in Ids : AuthWrite(u)
AuthReturnStep == \E u \in Ids : AuthReturn(u)
ConcAuthRequestStep == \E u \in Ids : ConcAuthRequest(u)

ConcNext ==
    \/ ConcAuthRequestStep
    \/ AuthReceivedStep
    \/ AuthLockStep
    \/ AuthCheckStep
    \/ AuthSerializeStep
    \/ AuthWriteStep
    \/ AuthReturnStep

ConcSpec == Init /\ [][ConcNext]_vars

(* ------------------- concurrent gated /cd handlers --------------------- *)
\* handle_command's gate and handle_cd, cut at their two lock().await: the
\* guard of the gate is a temporary of the `if` condition and is dropped when
\* the condition has its value, before the chosen arm runs; handle_cd then
\* takes the FileManager mutex and keeps it until it returns.

\* handle_auth and handle_auth_code hold the AuthManager mutex from their first
\* statement to their return, so each is one step here, taken when the mutex
\* is free. The history `last` is not kept by these steps.

\* The tokens the concurrent /cd requests carry.
CdTokens == {<<"a">>, DotDot}

\* The users file names identity 1 when the process starts.
GateConcInit == Init /\ users_file = to_string_pretty({1})

\* handle_auth_code of an identity with no other handler in flight.
ConcAuth(u, code) ==
    /\ tasks[u].pc = "idle"
    /\ CanLock(u)
    /\ running
    /\ IF is_authorized(u)
       THEN UNCHANGED authVars
       ELSE IF CodeMatches(access_codes, code, u)
       THEN /\ authorized_users' = authorized_users \cup {u}
            /\ access_codes' = MapRemove(access_codes, code)
            /\ \/ save_authorized_users(TRUE) /\ consumed' = code
               \/ save_authorized_users(FALSE) /\ consumed' = consumed
       ELSE UNCHANGED authVars
    /\ UNCHANGED <<sessions, running, last, concVars>>

\* A gate step that takes the authorized arm whoever asks.
GateCheck_NoTest(u) ==
    /\ tasks[u].pc = "gate_check"
    /\ mutex' = Unlocked
    /\ tasks' = [tasks EXCEPT ![u].pc = "fm_lock"]
    /\ UNCHANGED <<authVars, sessions, running, last, fm_mutex>>

\* An update "/cd <path>" of u is dispatched to handle_command.
CdReceived(u) ==
    /\ running
    /\ tasks[u].pc = "idle"
    /\ tasks' = [tasks EXCEPT ![u].pc = "gate_lock"]
    /\ UNCHANGED <<authVars, sessions, running, last, mutex, fm_mutex>>

\* handle_command: auth_manager.lock().await of the gate completes.
GateLock(u) ==
    /\ tasks[u].pc = "gate_lock"
    /\ CanLock(u)
    /\ mutex' = u
    /\ tasks' = [tasks EXCEPT ![u].pc = "gate_check"]
    /\ UNCHANGED <<authVars, sessions, running, last, fm_mutex>>

\* handle_command: .is_authorized(user_id) under the guard, which is dropped
\* at the end of the condition; the arm is chosen.
GateCheck(u) ==
    /\ tasks[u].pc = "gate_check"
    /\ mutex' = Unlocked
    /\ tasks' = [tasks EXCEPT ![u].pc = IF is_authorized(u) THEN "fm_lock" ELSE "deny"]
    /\ UNCHANGED <<authVars, sessions, running, last, fm_mutex>>

\* handle_command: the else arm sends the unauthorized message and returns.
GateDeny(u) ==
    /\ tasks[u].pc = "deny"
    /\ tasks' = [tasks EXCEPT ![u].pc = "idle"]
    /\ UNCHANGED <<authVars, sessions, running, last, mutex, fm_mutex>>

\* handle_cd: let mut file_manager = file_manager.lock().await
CdLock(u) ==
    /\ tasks[u].pc = "fm_lock"
    /\ fm_mutex = Unlocked
    /\ fm_mutex' = u
    /\ tasks' = [tasks EXCEPT ![u].pc = "run"]
    /\ UNCHANGED <<authVars, sessions, running, last, mutex>>

\* handle_cd: file_manager.change_directory(user_id, &path) with the path of
\* the update.
CdRun(u, token) ==
    /\ tasks[u].pc = "run"
    /\ sessions' = change_directory(sessions, u, token).sessions
    /\ tasks' = [tasks EXCEPT ![u].pc = "fm_return"]
    /\ UNCHANGED <<authVars, running, last, mutex, fm_mutex>>

\* handle_cd returns after its message: the FileManager guard is dropped.
CdReturn(u) ==
    /\ tasks[u].pc = "fm_return"
    /\ fm_mutex' = IF fm_mutex = u THEN Unlocked ELSE fm_mutex
    /\ tasks' = [tasks EXCEPT ![u].pc = "idle"]
    /\ UNCHANGED <<authVars, sessions, running, last, mutex>>

ConcAuthStep == \E u \in Ids, code \in Codes : ConcAuth(u, code)
CdReceivedStep == \E u \in Ids : CdReceived(u)
GateLockStep == \E u \in Ids : GateLock(u)
GateCheckStep == \E u \in Ids : GateCheck(u)
GateDenyStep == \E u \in Ids : GateDeny(u)
CdLockStep == \E u \in Ids : CdLock(u)
CdRunStep == \E u \in Ids, token \in CdTokens : CdRun(u, token)
CdReturnStep == \E u \in Ids : CdReturn(u)

GateConcNext ==
    \/ ConcAuthRequestStep
    \/ ConcAuthStep
    \/ CdReceivedStep
    \/ GateLockStep
    \/ GateCheckStep
    \/ GateDenyStep
    \/ CdLockStep
    \/ CdRunStep
    \/ CdReturnStep

GateConcSpec == GateConcInit /\ [][GateConcNext]_vars

(* ------------------- concurrent gated /exec handlers ------------------- *)
\* handle_exec takes the FileManager mutex and, holding it, calls
\* std::process::Command::output(), which blocks until the child `sh -c
\* <command>` has exited; the guard is dropped when the handler returns.

\* What the command of an /exec request does: it exits, or it runs for ever
\* (sleep infinity).
ExecCommands == {"exits", "runs for ever"}

\* An update "/exec <command>" of u is dispatched to handle_command.
ExecReceived(u) ==
    /\ running
    /\ tasks[u].pc = "idle"
    /\ tasks' = [tasks EXCEPT ![u].pc = "exec_gate_lock"]
    /\ UNCHANGED <<authVars, sessions, running, last, mutex, fm_mutex>>

\* handle_command: auth_manager.lock().await of the gate completes.
ExecGateLock(u) ==
    /\ tasks[u].pc = "exec_gate_lock"
    /\ CanLock(u)
    /\ mutex' = u
    /\ tasks' = [tasks EXCEPT ![u].pc = "exec_gate_check"]
    /\ UNCHANGED <<authVars, sessions, running, last, fm_mutex>>

\* handle_command: .is_authorized(user_id), the guard is dropped, the arm is
\* chosen.
ExecGateCheck(u) ==
    /\ tasks[u].pc = "exec_gate_check"
    /\ mutex' = Unlocked
    /\ tasks' = [tasks EXCEPT ![u].pc = IF is_authorized(u) THEN "exec_fm_lock"
                                                             ELSE "deny"]
    /\ UNCHANGED <<authVars, sessions, running, last, fm_mutex>>

\* handle_exec: let file_manager = file_manager.lock().await
ExecLock(u) ==
    /\ tasks[u].pc = "exec_fm_lock"
    /\ fm_mutex = Unlocked
    /\ fm_mutex' = u
    /\ tasks' = [tasks EXCEPT ![u].pc = "exec_spawn"]
    /\ UNCHANGED <<authVars, sessions, running, last, mutex>>

\* handle_exec: get_current_directory, then Command::new("sh")...output()
\* starts the child, or fails to start it and returns Err at once.
ExecSpawn(u, command) ==
    /\ tasks[u].pc = "exec_spawn"
    /\ \/ tasks' = [tasks EXCEPT ![u].pc = IF command = "exits" THEN "exec_wait"
                                                                ELSE "exec_hang"]
       \/ tasks' = [tasks EXCEPT ![u].pc = "exec_reply"]
    /\ UNCHANGED <<authVars, sessions, running, last, mutex, fm_mutex>>

\* The child exits and output() returns its status and its output. (A child
\* that runs for ever leaves the handler in output(): no step.)
ExecOutput(u) ==
    /\ tasks[u].pc = "exec_wait"
    /\ tasks' = [tasks EXCEPT ![u].pc = "exec_reply"]
    /\ UNCHANGED <<authVars, sessions, running, last, mutex, fm_mutex>>

\* handle_exec returns after its message: the FileManager guard is dropped.
ExecReturn(u) ==
    /\ tasks[u].pc = "exec_reply"
    /\ fm_mutex' = IF fm_mutex = u THEN Unlocked ELSE fm_mutex
    /\ tasks' = [tasks EXCEPT ![u].pc = "idle"]
    /\ UNCHANGED <<authVars, sessions, running, last, mutex>>

ExecReceivedStep == \E u \in Ids : ExecReceived(u)
ExecGateLockStep == \E u \in Ids : ExecGateLock(u)
ExecGateCheckStep == \E u \in Ids : ExecGateCheck(u)
ExecLockStep == \E u \in Ids : ExecLock(u)
ExecSpawnStep == \E u \in Ids, command \in ExecCommands : ExecSpawn(u, command)
ExecOutputStep == \E u \in Ids : ExecOutput(u)
ExecReturnStep == \E u \in Ids : ExecReturn(u)

LiveNext ==
    \/ GateConcNext
    \/ ExecReceivedStep
    \/ ExecGateLockStep
    \/ ExecGateCheckStep
    \/ ExecLockStep
    \/ ExecSpawnStep
    \/ ExecOutputStep
    \/ ExecReturnStep

\* Scheduling: a handler that can take its next step takes it (the runtime
\* polls every ready task, and a send to the transport returns); tokio's Mutex
\* is fair, so a lock().await that can complete again and again completes.
\* Nothing makes an update arrive, and nothing makes a child process exit
\* other than the command it runs.
HandlerFairness ==
    \A u \in Ids :
        /\ SF_vars(GateLock(u)) /\ SF_vars(ExecGateLock(u))
        /\ SF_vars(CdLock(u)) /\ SF_vars(ExecLock(u))
        /\ WF_vars(GateCheck(u)) /\ WF_vars(ExecGateCheck(u))
        /\ WF_vars(GateDeny(u))
        /\ WF_vars(\E token \in CdTokens : CdRun(u, token))
        /\ WF_vars(CdReturn(u))
        /\ WF_vars(\E command \in ExecCommands : ExecSpawn(u, command))
        /\ WF_vars(ExecOutput(u))
        /\ WF_vars(ExecReturn(u))

LiveSpec == GateConcInit /\ [][LiveNext]_vars /\ HandlerFairness

(* ======================================================================= *)
(*                               Properties                                *)
(* ======================================================================= *)
\* The step being taken is a call of AuthManager::verify_access_code; its
\* arguments are last'.code and last'.user, its result is last'.ret.
IsVerify == last'.op = "verify_access_code"

\* The lookup of the call succeeds: the submitted code is bound to the caller.
Matches == last'.code \in DOMAIN access_codes /\ access_codes[last'.code] = last'.user

\* C1: while a code c is bound to identity A, verify_access_code(c, B) by any
\* other identity B returns Ok(false), authorizes neither A nor B, and leaves c
\* in the table bound to A.
C1_NoCrossIdentityRedemption ==
    [][(/\ IsVerify
        /\ last'.code \in DOMAIN access_codes
        /\ access_codes[last'.code] # last'.user)
       => (/\ last'.ret = "Ok(false)"
           /\ authorized_users' = authorized_users
           /\ last'.code \in DOMAIN access_codes'
           /\ access_codes'[last'.code] = access_codes[last'.code])]_vars

\* C1 witness: B has just submitted a code that is bound to another identity,
\* and neither of the two is authorized.
C1_Witness ==
    /\ last.op = "verify_access_code"
    /\ last.ret = "Ok(false)"
    /\ last.code \in DOMAIN access_codes
    /\ access_codes[last.code] # last.user
    /\ access_codes[last.code] \notin authorized_users
    /\ last.user \notin authorized_users

\* C2: single use. Once verify_access_code(c, A) has returned Ok(true), every
\* later verify_access_code(c, X) returns Ok(false), whatever was called in
\* between: the accepted code c is bound to no identity X ever after. (Stated
\* for the code accepted last, which `consumed` remembers.)
C2_SingleUse ==
    [][(IsVerify /\ consumed # NoCode /\ last'.code = consumed)
       => last'.ret = "Ok(false)"]_vars

\* C3: is_authorized(A) turns true only in a verify_access_code call for A that
\* returns Ok(true) (or in a start from a file that names A); after such a call
\* it is true and stays true; and whenever it is true it is true in a new
\* AuthManager built from the file as well.
C3_AuthorizedAfterVerifyAndReload ==
    [][\A A \in Ids :
         /\ (A \notin authorized_users /\ A \in authorized_users')
            => \/ last'.op = "new"
               \/ IsVerify /\ last'.user = A /\ last'.ret = "Ok(true)"
         /\ (IsVerify /\ last'.user = A /\ last'.ret = "Ok(true)")
            => A \in authorized_users'
         /\ (A \in authorized_users /\ last'.op # "new") => A \in authorized_users'
         /\ A \in authorized_users'
            => /\ load_authorized_users(users_file').ok
               /\ A \in load_authorized_users(users_file').users]_vars

\* C4: an identity is in the authorized set iff the start-up load put it there
\* or a verify_access_code call with a code bound to that identity returned
\* Ok(true) for it: only these two add an identity, and nothing removes one.
C4_AuthorizedIffLoadedOrRedeemed ==
    [][/\ last'.op = "new" => authorized_users' = FileUsers(users_file)
       /\ last'.op # "new" =>
            \A A \in Ids :
              /\ (A \in authorized_users => A \in authorized_users')
              /\ (A \notin authorized_users /\ A \in authorized_users')
                 => (IsVerify /\ Matches /\ last'.user = A /\ last'.ret = "Ok(true)")
              /\ (IsVerify /\ Matches /\ last'.user = A /\ last'.ret = "Ok(true)")
                 => A \in authorized_users']_vars

\* The step being taken is one of the gated commands of handle_command; the
\* requester is last'.user.
IsGated == last'.op \in {"ls", "cd", "download", "exec", "pwd"}

\* C5: the authorization gate. A gated command (ls, cd, download, exec, pwd)
\* reaches the FileManager or the executor only when is_authorized is true for
\* the requester; when it is false the reply is the one unauthorized message
\* and the session map, the code table and the authorized set are unchanged.
C5_AuthorizationGate ==
    [][IsGated =>
         /\ last'.inner # "none" => last'.user \in authorized_users
         /\ last'.user \notin authorized_users
            => /\ last'.reply = "Unauthorized"
               /\ last'.inner = "none"
               /\ sessions' = sessions
               /\ access_codes' = access_codes
               /\ authorized_users' = authorized_users]_vars

\* C5 witness: /cd from an identity that is not authorized has been answered
\* with the unauthorized message while a session, a pending code and an
\* authorized identity exist.
C5_Witness ==
    /\ last.op = "cd"
    /\ last.user \notin authorized_users
    /\ last.reply = "Unauthorized"
    /\ sessions # EmptyMap
    /\ access_codes # EmptyMap
    /\ authorized_users # {}

\* C6: a verify_access_code whose code is absent or bound to another identity
\* returns Ok(false) and changes neither the code table, nor the authorized
\* set, nor the users file.
C6_FailedVerifyMutatesNothing ==
    [][(IsVerify /\ ~Matches)
       => /\ last'.ret = "Ok(false)"
          /\ access_codes' = access_codes
          /\ authorized_users' = authorized_users
          /\ users_file' = users_file]_vars

\* C6 witness: a verify_access_code has just returned Ok(false) for a code
\* bound to another identity, while the table holds a code of the caller too.
C6_Witness ==
    /\ last.op = "verify_access_code"
    /\ last.ret = "Ok(false)"
    /\ last.code \in DOMAIN access_codes
    /\ access_codes[last.code] # last.user
    /\ \E c \in DOMAIN access_codes : access_codes[c] = last.user

\* C7: a verify_access_code(c, A) whose code is bound to A and whose write
\* succeeds returns Ok(true), adds A to the authorized set, removes the entry c
\* and no other from the code table, and leaves in the users file the whole
\* authorized set.
C7_SuccessfulVerify ==
    [][(IsVerify /\ Matches /\ last'.inner = "Ok")
       => /\ last'.ret = "Ok(true)"
          /\ authorized_users' = authorized_users \cup {last'.user}
          /\ DOMAIN access_codes' = DOMAIN access_codes \ {last'.code}
          /\ \A d \in DOMAIN access_codes' : access_codes'[d] = access_codes[d]
          /\ users_file'.kind = "valid"
          /\ from_str(users_file') = authorized_users']_vars

\* C7 witness: a verify_access_code has just returned Ok(true) for an identity
\* that is not the only one authorized, and another code is still pending.
C7_Witness ==
    /\ last.op = "verify_access_code"
    /\ last.ret = "Ok(true)"
    /\ last.user \in authorized_users
    /\ authorized_users # {last.user}
    /\ access_codes # EmptyMap
    /\ from_str(users_file) = authorized_users

\* C8: a failed write during /auth is not swallowed: when verify_access_code
\* returns its AuthError to handle_auth_code, the handler does not end with
\* Ok(()) as if nothing had happened.
C8_WriteFailureSurfaced ==
    (last.op = "auth" /\ last.inner = "Err(AuthError)") => last.ret # "Ok"

\* C9: verify_access_code is all or nothing. A call either returns Ok(true)
\* with the code removed, the identity authorized and the identity in the users
\* file, or it changes nothing; and nobody is authorized in memory without
\* being in the users file.
C9_AllOrNothing ==
    [][IsVerify
       => /\ \/ /\ last'.ret = "Ok(true)"
                /\ last'.code \notin DOMAIN access_codes'
                /\ last'.user \in authorized_users'
                /\ last'.user \in FileUsers(users_file')
             \/ /\ access_codes' = access_codes
                /\ authorized_users' = authorized_users
                /\ users_file' = users_file
          /\ authorized_users' \subseteq FileUsers(users_file')]_vars

\* The step is a verify_access_code whose lookup succeeds and whose write
\* fails.
WriteFails == IsVerify /\ Matches /\ last'.inner = "Err"

\* C10 as stated: when the code matches and the write fails, the call returns
\* the error while A is in the authorized set and c is gone from the table,
\* and the users file does not contain A.
C10_NoRollback_AsStated ==
    [][WriteFails
       => /\ last'.ret = "Err(AuthError)"
          /\ last'.user \in authorized_users'
          /\ last'.code \notin DOMAIN access_codes'
          /\ last'.user \notin FileUsers(users_file')]_vars

\* C10: when the code matches and the write fails, the call returns the error
\* while A is in the authorized set and c is gone from the table; the users
\* file does not contain A unless it contained A before the call.
C10_NoRollback ==
    [][WriteFails
       => /\ last'.ret = "Err(AuthError)"
          /\ last'.user \in authorized_users'
          /\ last'.code \notin DOMAIN access_codes'
          /\ last'.user \notin FileUsers(users_file)
             => last'.user \notin FileUsers(users_file')]_vars

\* C10 witness: a verify_access_code has just returned the AuthError; its
\* caller is authorized in memory, its code is gone, and the users file, which
\* a new AuthManager would load, does not name the caller.
C10_Witness ==
    /\ last.op = "verify_access_code"
    /\ last.ret = "Err(AuthError)"
    /\ last.user \in authorized_users
    /\ last.code \notin DOMAIN access_codes
    /\ users_file.kind = "valid"
    /\ last.user \notin FileUsers(users_file)

\* C11: no lost update among concurrent /auth handlers. At most one handler
\* is between lock and unlock, so one handler's insert, serialization and
\* write never interleave with another's; and every identity whose
\* verify_access_code returned Ok(true) is in the users file (as long as no
\* later write failed and left the file cut short).
C11_NoLostUpdate ==
    /\ \A u, v \in Ids : (InCritical(u) /\ InCritical(v)) => u = v
    /\ users_file # MalformedFile
       => \A u \in Ids : tasks[u].ret = "Ok(true)" => u \in FileUsers(users_file)

\* C11 witness: two identities have redeemed their codes with success; the
\* handler of one is about to return, still holding the mutex, while a new
\* /auth of the other waits for the lock; the file names both.
C11_Witness ==
    \E u, v \in Ids :
      /\ u # v
      /\ tasks[u].ret = "Ok(true)" /\ tasks[u].pc = "return"
      /\ tasks[v].ret = "Ok(true)" /\ tasks[v].pc = "lock"
      /\ mutex = u
      /\ {u, v} \subseteq FileUsers(users_file)

\* The step being taken is AuthManager::new on the file as it is.
IsNew == last'.op = "new"

C13_Restart ==
    [][/\ (IsNew /\ last'.ret = "Ok")
          => /\ authorized_users' = FileUsers(users_file)
             /\ users_file' = users_file
             /\ access_codes' = EmptyMap
       /\ (last.op = "new" /\ IsVerify) => last'.ret = "Ok(false)"]_vars

\* C13 witness: a restart has just loaded an identity from the file while
\* nothing of the code table is left.
C13_Witness ==
    /\ last.op = "new"
    /\ last.inner = "restart"
    /\ last.ret = "Ok"
    /\ authorized_users # {}
    /\ authorized_users = FileUsers(users_file)
    /\ access_codes = EmptyMap

\* The step being taken is a call of FileManager::change_directory; its
\* arguments are last'.user and last'.path, its result is last'.ret.
IsCd == last'.op = "change_directory"

\* C14: session isolation. A change_directory of A, succeeding or failing,
\* leaves the current directory of every other identity B as it was (and
\* creates no entry for B), whatever calls came before.
C14_SessionIsolation ==
    [][IsCd =>
         \A B \in Ids \ {last'.user} :
           /\ get_current_directory(sessions', B) = get_current_directory(sessions, B)
           /\ (B \in DOMAIN sessions') = (B \in DOMAIN sessions)]_vars

\* C14 witness: A has just changed its directory with success while another
\* identity has a session in a directory that is neither A's nor the root.
C14_Witness ==
    /\ last.op = "change_directory"
    /\ last.ret = "Ok"
    /\ \E B \in DOMAIN sessions \ {last.user} :
         /\ sessions[B] # Root
         /\ sessions[B] # sessions[last.user]

\* The candidate of the change_directory being called: the parent of the
\* caller's directory for "..", else that directory joined with the argument.
Candidate ==
    LET D == IF last'.user \in DOMAIN sessions THEN sessions[last'.user] ELSE Root IN
    IF last'.path = DotDot
    THEN (IF Len(D) = 0 THEN D ELSE SubSeq(D, 1, Len(D) - 1))
    ELSE join(D, last'.path)

\* C15: when the candidate of change_directory(A, token) names nothing or
\* something that is no directory, the call returns the "Directory does not
\* exist" error and the session map is unchanged: A's directory is as before
\* and no entry appears for an identity that had none.
C15_FailedChangeDirectory ==
    [][(IsCd /\ ~(Resolve(Candidate).found /\ FS[Resolve(Candidate).path].kind = "dir"))
       => /\ last'.ret = DirectoryDoesNotExist
          /\ sessions' = sessions]_vars

\* C15 witness: an identity without a session has just asked for a regular
\* file as its directory, got the error and still has no entry, while another
\* identity has one.
C15_Witness ==
    /\ last.op = "change_directory"
    /\ last.path = <<"f">>
    /\ last.ret = DirectoryDoesNotExist
    /\ last.user \notin DOMAIN sessions
    /\ sessions # EmptyMap

\* C16: change_directory(A, "..") while A's current directory is the root
\* returns Ok and leaves A's current directory the root; the state it leaves
\* is one where the same holds again, so any number of repetitions ends there.
C16_ParentOfRoot ==
    [][(IsCd /\ last'.path = DotDot /\ get_current_directory(sessions, last'.user) = Root)
       => /\ last'.ret = "Ok"
          /\ get_current_directory(sessions', last'.user) = Root
          /\ \A B \in Ids \ {last'.user} :
               get_current_directory(sessions', B) = get_current_directory(sessions, B)]_vars

\* C16 witness: A has just called change_directory("..") with success and is
\* in the root, where a session entry now says so.
C16_Witness ==
    /\ last.op = "change_directory"
    /\ last.path = DotDot
    /\ last.ret = "Ok"
    /\ last.user \in DOMAIN sessions
    /\ sessions[last.user] = Root

\* A path argument that is one plain name.
PlainName(token) == Len(token) = 1 /\ token[1] \notin {"..", ".", "/"}

\* C17: the round trip. From any current directory D of A, change_directory
\* to a child s of D that is a directory (no link) returns Ok and leaves A in
\* D/s; and the change_directory(A, "..") that follows it returns Ok and leaves
\* A in D again, D being in canonical form.
C17_RoundTrip ==
    [][/\ (/\ IsCd
           /\ PlainName(last'.path)
           /\ Append(get_current_directory(sessions, last'.user), last'.path[1]) \in FsPaths
           /\ FS[Append(get_current_directory(sessions, last'.user), last'.path[1])].kind = "dir")
          => /\ last'.ret = "Ok"
             /\ get_current_directory(sessions', last'.user)
                  = Append(get_current_directory(sessions, last'.user), last'.path[1])
       /\ (/\ last.op = "change_directory" /\ last.ret = "Ok" /\ PlainName(last.path)
           /\ Len(sessions[last.user]) > 0
           /\ sessions[last.user][Len(sessions[last.user])] = last.path[1]
           /\ IsCd /\ last'.user = last.user /\ last'.path = DotDot)
          => LET D == SubSeq(sessions[last.user], 1, Len(sessions[last.user]) - 1) IN
             /\ last'.ret = "Ok"
             /\ get_current_directory(sessions', last'.user) = D
             /\ Resolve(D) = [found |-> TRUE, path |-> D]]_vars

\* C17 witness: A is back in /a after change_directory("..") from /a/b.
C17_Witness ==
    /\ last.op = "change_directory"
    /\ last.path = DotDot
    /\ last.ret = "Ok"
    /\ last.user \in DOMAIN sessions
    /\ sessions[last.user] = <<"a">>

\* C18: with the tree unchanged, every directory stored in the session map
\* exists, is a directory, and is in canonical form: a path from "/" whose
\* components are names of real directories, none a link, none "." or "..".
C18_SessionsCanonical ==
    \A u \in DOMAIN sessions :
      /\ sessions[u] \in FsPaths
      /\ FS[sessions[u]].kind = "dir"
      /\ \A i \in 1 .. Len(sessions[u]) :
           /\ sessions[u][i] \notin {"..", ".", "/"}
           /\ SubSeq(sessions[u], 1, i) \in FsPaths
           /\ FS[SubSeq(sessions[u], 1, i)].kind = "dir"

\* C18 witness: change_directory through the link /l has just succeeded and
\* the session holds the link's target, /a/b, while the session of another
\* identity is the root.
C18_Witness ==
    /\ last.op = "change_directory"
    /\ last.path = <<"l">>
    /\ last.ret = "Ok"
    /\ sessions[last.user] = <<"a", "b">>
    /\ \E v \in DOMAIN sessions : v # last.user /\ sessions[v] = Root

\* C19: get_current_directory(A) returns the default root "/" for an
\* identity that has completed no successful change_directory and, for any
\* other, the directory its last successful change_directory stored. The
\* session map starts empty; A's entry is created or changed only by a
\* successful change_directory of A, which stores the canonical form of its
\* candidate; and get_current_directory returns A's entry, or "/" without one.
C19_GetCurrentDirectory ==
    /\ sessions = EmptyMap
    /\ [][/\ \A A \in Ids :
               (\/ (A \in DOMAIN sessions') # (A \in DOMAIN sessions)
                \/ (A \in DOMAIN sessions /\ sessions'[A] # sessions[A]))
               => (IsCd /\ last'.user = A /\ last'.ret = "Ok")
          /\ (IsCd /\ last'.ret = "Ok")
             => /\ last'.user \in DOMAIN sessions'
                /\ sessions'[last'.user] = Resolve(Candidate).path
          /\ last'.op = "get_current_directory"
             => last'.path = IF last'.user \in DOMAIN sessions
                             THEN sessions[last'.user] ELSE Root]_vars

\* C19 witness: get_current_directory has just returned /a/b, where the
\* caller's last successful change_directory led, while another identity has
\* never changed its directory.
C19_Witness ==
    /\ last.op = "get_current_directory"
    /\ last.user \in DOMAIN sessions
    /\ last.path = <<"a", "b">>
    /\ sessions[last.user] = last.path
    /\ \E B \in Ids : B \notin DOMAIN sessions

\* The step being taken is a call of one of the read-only methods.
IsQuery ==
    last'.op \in {"is_authorized", "get_current_directory", "list_directory",
                  "file_exists", "is_file", "get_file_path"}

\* C20: is_authorized, get_current_directory, list_directory, file_exists,
\* is_file and get_file_path leave the authorized set, the code table, the
\* users file and the session map as they were; a query for an identity
\* without a session creates no entry.
C20_QueriesChangeNothing ==
    [][IsQuery
       => /\ authorized_users' = authorized_users
          /\ access_codes' = access_codes
          /\ users_file' = users_file
          /\ sessions' = sessions
          /\ (last'.user \in DOMAIN sessions') = (last'.user \in DOMAIN sessions)]_vars

\* C20 witness: get_current_directory has just answered an identity that has
\* no session, and it still has none, while there are a session of another
\* identity, a pending code and an authorized identity.
C20_Witness ==
    /\ last.op = "get_current_directory"
    /\ last.user \notin DOMAIN sessions
    /\ last.path = Root
    /\ sessions # EmptyMap
    /\ access_codes # EmptyMap
    /\ authorized_users # {}
    /\ FileUsers(users_file) # {}

\* What the name of the /download being handled resolves to, from the
\* requester's own current directory.
DownloadTarget ==
    Resolve(join(IF last'.user \in DOMAIN sessions THEN sessions[last'.user] ELSE Root,
                 last'.path))

\* C21: /download n from an authorized identity is answered with the document
\* exactly when n, resolved against the requester's own current directory,
\* exists and is a regular file; when it names nothing the answer is "File not
\* found", and when it names a directory "Cannot download directories".
C21_Download ==
    [][(last'.op = "download" /\ last'.user \in authorized_users)
       => /\ (last'.reply = "Document")
               <=> (DownloadTarget.found /\ FS[DownloadTarget.path].kind = "file")
          /\ ~DownloadTarget.found => last'.reply = "FileNotFound"
          /\ (DownloadTarget.found /\ FS[DownloadTarget.path].kind = "dir")
             => last'.reply = "CannotDownloadDirectories"]_vars

\* C21 witness: an identity whose current directory is /a has asked for f,
\* which is a file of the root and not of /a, and got "File not found".
C21_Witness ==
    /\ last.op = "download"
    /\ last.path = <<"f">>
    /\ last.reply = "FileNotFound"
    /\ last.user \in DOMAIN sessions
    /\ sessions[last.user] = <<"a">>

\* The step being taken is a call of AuthManager::generate_access_code; its
\* argument is last'.user, the code it returns is last'.code.
IsGenerate == last'.op = "generate_access_code"

\* C22: a collision is last-writer-wins. generate_access_code for B that
\* returns a string c leaves the one entry c bound to B, whoever held c
\* before, and every other entry as it was; and while c is bound to B,
\* verify_access_code(c, A) of another identity returns Ok(false) and
\* verify_access_code(c, B) returns Ok(true) when the write succeeds. (The table
\* is a map: a string is bound to one identity at a time.)
C22_LastWriterWins ==
    [][/\ IsGenerate
          => /\ DOMAIN access_codes' = DOMAIN access_codes \cup {last'.code}
             /\ access_codes'[last'.code] = last'.user
             /\ \A d \in DOMAIN access_codes \ {last'.code} :
                  access_codes'[d] = access_codes[d]
       /\ (IsVerify /\ last'.code \in DOMAIN access_codes)
          => IF access_codes[last'.code] = last'.user
             THEN last'.ret \in {"Ok(true)", "Err(AuthError)"}
                  /\ (last'.inner = "Ok" => last'.ret = "Ok(true)")
             ELSE last'.ret = "Ok(false)"]_vars

\* C22 witness: generate_access_code has just returned, for B, a string that
\* was bound to another identity; the entry is B's now.
C22_Witness ==
    /\ last.op = "generate_access_code"
    /\ last.inner = "Some(other)"
    /\ access_codes[last.code] = last.user

\* C23: a failed redemption looks the same whether the submitted code is in
\* nobody's hands or bound to another identity. For /auth of an identity that
\* is not authorized, with a code that is not its own, verify_access_code
\* returns Ok(false), the handler returns Ok(()) and sends nothing, and no
\* state changes: the outcome is one constant, so two runs that differ only in
\* who holds the code cannot be told apart by the requester.
C23_FlatFailure ==
    [][(last'.op = "auth" /\ last'.user \notin authorized_users /\ ~Matches)
       => /\ last'.inner = "Ok(false)"
          /\ last'.ret = "Ok"
          /\ last'.reply = "none"
          /\ UNCHANGED <<authorized_users, access_codes, users_file, sessions>>]_vars

\* C23 witness: /auth with a code that another identity holds has just failed
\* for an identity that holds a code of its own.
C23_Witness ==
    /\ last.op = "auth"
    /\ last.inner = "Ok(false)"
    /\ last.code \in DOMAIN access_codes
    /\ access_codes[last.code] # last.user
    /\ \E c \in DOMAIN access_codes : access_codes[c] = last.user

\* The immediate children of the directory D in the tree.
Children(D) == {q \in FsPaths : Len(q) = Len(D) + 1 /\ SubSeq(q, 1, Len(D)) = D}

\* C24: list_directory(A) returns one item per immediate child of A's current
\* directory and no other, each with the child's name, its path below the
\* current directory, is_directory true exactly when the child itself is a
\* directory (a link is none), and the child's size in bytes; when the
\* directory cannot be read it returns the FileError, not an empty list.
C24_ListDirectory ==
    \A u \in Ids :
      LET D == IF u \in DOMAIN sessions THEN sessions[u] ELSE Root
          r == list_directory(sessions, u) IN
      IF FS[D].readable
      THEN /\ r.ret = "Ok"
           /\ {i.path : i \in r.items} = Children(D)
           /\ Cardinality(r.items) = Cardinality(Children(D))
           /\ \A i \in r.items :
                /\ i.path = Append(D, i.name)
                /\ i.is_directory = (FS[i.path].kind = "dir")
                /\ i.size = FS[i.path].size
      ELSE r.ret = "Err(FileError)"

\* C24 witness: list_directory has just listed /a, which has a subdirectory
\* and an empty file, while another identity is in a directory that cannot be
\* read.
C24_Witness ==
    /\ last.op = "list_directory"
    /\ last.reply = "Listing"
    /\ last.user \in DOMAIN sessions
    /\ sessions[last.user] = <<"a">>
    /\ Cardinality(list_directory(sessions, last.user).items) = 2
    /\ \E v \in DOMAIN sessions : sessions[v] = <<"p">>

\* C25: any two generate_access_code calls return different strings: the
\* string a call returns is bound to nobody in the table before the call, so
\* the call adds one new entry, bound to its identity.
C25_UniqueCodes ==
    [][IsGenerate
       => /\ last'.code \notin DOMAIN access_codes
          /\ DOMAIN access_codes' = DOMAIN access_codes \cup {last'.code}
          /\ access_codes'[last'.code] = last'.user]_vars

\* The step being taken is one of the exempt commands of handle_command.
IsExempt == last'.op \in {"help", "authrequest", "auth"}

\* C26: /help, /authrequest and /auth reach their handlers for every identity,
\* authorized or not, and are never answered with the unauthorized message;
\* an identity that is not authorized gets a code bound to it by /authrequest,
\* and is authorized by /auth with a code bound to it.
C26_ExemptCommands ==
    [][IsExempt
       => /\ last'.reply # "Unauthorized"
          /\ (last'.op = "authrequest" /\ last'.user \notin authorized_users)
             => /\ last'.inner = "generate_access_code"
                /\ \E c \in DOMAIN access_codes' :
                     /\ access_codes'[c] = last'.user
                     /\ c \notin DOMAIN access_codes \/ access_codes[c] # last'.user
                        \/ access_codes' = access_codes
          /\ (last'.op = "auth" /\ last'.user \notin authorized_users /\ Matches)
             => last'.user \in authorized_users'
          /\ (last'.op = "help")
             => last'.reply = IF last'.user \in authorized_users
                              THEN "Help(authorized)" ELSE "Help(unauthorized)"]_vars

\* C26 witness: an identity that the users file did not name has redeemed a
\* code through /auth: it is authorized and the file names it.
C26_Witness ==
    /\ last.op = "auth"
    /\ last.inner = "Ok(true)"
    /\ last.user \in authorized_users
    /\ last.user \in FileUsers(users_file)
    /\ authorized_users # {last.user}

\* C27: /authrequest and /auth by an identity that is already authorized change
\* no authorization state: the reply is the already-authorized message,
\* neither generate_access_code nor verify_access_code is called, and the
\* authorized set, the code table (a code the identity still holds included)
\* and the users file stay as they were.
C27_AlreadyAuthorized ==
    [][(last'.op \in {"authrequest", "auth"} /\ last'.user \in authorized_users)
       => /\ last'.reply = "AlreadyAuthorized"
          /\ last'.inner = "none"
          /\ last'.ret = Sent
          /\ UNCHANGED <<authorized_users, access_codes, users_file, consumed>>]_vars

\* C27 witness: an authorized identity sends /auth with a code that is still
\* bound to it, gets the already-authorized reply, and the code is still there.
C27_Witness ==
    /\ last.op = "auth"
    /\ last.reply = "AlreadyAuthorized"
    /\ last.user \in authorized_users
    /\ last.code \in DOMAIN access_codes
    /\ access_codes[last.code] = last.user

\* C28: within one process lifetime (every step but the construction of a new
\* AuthManager) the authorized set only grows: whoever is_authorized accepts
\* before a generate_access_code, a verify_access_code (accepted, refused or
\* failed on the write) or an is_authorized call is accepted after it.
C28_Monotonic ==
    [][last'.op # "new"
       => \A u \in Ids : is_authorized(u) => u \in authorized_users']_vars

\* C28 witness: an authorized identity has had a verify_access_code refused, and
\* another identity's verify_access_code has failed on the write before that;
\* both are still authorized.
C28_Witness ==
    /\ last.op = "verify_access_code"
    /\ last.ret = "Ok(false)"
    /\ last.user \in authorized_users
    /\ users_file = MalformedFile
    /\ \E v \in authorized_users : v # last.user

\* The entries of the code table other than the one the step names are the same
\* before and after the step.
OthersKept ==
    \A k \in DOMAIN access_codes \ {last'.code} :
        k \in DOMAIN access_codes' /\ access_codes'[k] = access_codes[k]

\* C29: generate_access_code touches only the entry of the code it returns, so
\* a code the identity got earlier stays bound to it; verify_access_code with
\* any code bound to the caller authorizes the caller (returning Ok(true) when
\* the write succeeds) and removes that code only; is_authorized changes no
\* entry: a code that is not redeemed stays in the table.
C29_EarlierCodesKept ==
    [][/\ IsGenerate => OthersKept
       /\ IsVerify => /\ OthersKept
                      /\ Matches => /\ last'.ret # "Ok(false)"
                                    /\ last'.user \in authorized_users'
                                    /\ last'.inner = "Ok" => last'.ret = "Ok(true)"
       /\ last'.op = "is_authorized" => UNCHANGED access_codes]_vars

\* C29 witness: an identity that held two different codes has redeemed one
\* and the other is still bound to it.
C29_Witness ==
    /\ last.op = "verify_access_code"
    /\ last.ret = "Ok(true)"
    /\ \E k \in DOMAIN access_codes : k # last.code /\ access_codes[k] = last.user

\* The identity's handler is inside handle_cd: from file_manager.lock().await
\* to its return.
InHandleCd(u) == tasks[u].pc \in {"fm_lock", "run", "fm_return"}

\* C30: the gate's guard on the AuthManager is gone when handle_cd asks for
\* the FileManager (no handler inside handle_cd holds the AuthManager mutex, and
\* another handler may hold it meanwhile), and whatever the other handlers did
\* in between, an identity whose handler is inside handle_cd is authorized.
C30_GateUnderInterleaving ==
    \A u \in Ids :
        InHandleCd(u) => /\ mutex # u
                         /\ is_authorized(u)

\* C30 witness: an identity's handle_cd holds the FileManager mutex and is
\* about to call change_directory while the gate of another identity, which
\* has redeemed a code since the start, holds the AuthManager mutex.
C30_Witness ==
    \E u, v \in Ids :
        /\ u # v
        /\ tasks[u].pc = "run"
        /\ fm_mutex = u
        /\ tasks[v].pc = "gate_check"
        /\ mutex = v
        /\ v \in authorized_users
        /\ consumed # NoCode

\* C31: no handler holds the AuthManager mutex and the FileManager mutex at
\* the same time, and under the handlers' fair scheduling every handler that
\* has started returns: its task is idle again and holds no mutex.
C31_DeadlockFree ==
    /\ [](\A u \in Ids : ~(mutex = u /\ fm_mutex = u))
    /\ \A u \in Ids :
         (tasks[u].pc # "idle")
            ~> (tasks[u].pc = "idle" /\ mutex # u /\ fm_mutex # u)

\* C32: in every state the identities a load of the users file would give are
\* in the authorized set held in memory; right after a verify_access_code that
\* returned Ok(true) the two sets are the same; generate_access_code and a
\* verify_access_code that returned Ok(false) leave the file as it was.
C32_MemoryDiskConsistency ==
    /\ [](FileUsers(users_file) \subseteq authorized_users)
    /\ [][/\ (IsVerify /\ last'.ret = "Ok(true)")
             => /\ FileUsers(users_file') = authorized_users'
                /\ users_file' = to_string_pretty(authorized_users')
          /\ IsGenerate => UNCHANGED users_file
          /\ (IsVerify /\ last'.ret = "Ok(false)") => UNCHANGED users_file]_vars

\* C32 witness: a verify_access_code returned Ok(true) while another identity
\* was authorized: the file was rewritten whole and names both, as the memory.
C32_Witness ==
    /\ last.op = "verify_access_code"
    /\ last.ret = "Ok(true)"
    /\ users_file = to_string_pretty(authorized_users)
    /\ \E v \in authorized_users : v # last.user

====
